---- MODULE Spec2Model ----
(***************************************************************************)
(* Model of computeSales.py: main loads a price catalogue and a sales      *)
(* record, build_price_map indexes the catalogue, compute_total joins the  *)
(* sales rows with the index, and main writes the report.                  *)
(*                                                                         *)
(* Strings are sequences of one-character strings.  A float is a record:   *)
(* F(n) for the (integer-valued) finite doubles the bounded inputs reach,  *)
(* NaN for the not-a-number double.  A parsed JSON value is a record       *)
(* tagged by its field t.                                                  *)
(***************************************************************************)
EXTENDS Integers, Sequences, FiniteSets, TLC

VARIABLES pc, argc, catalogue, sales, prices, idx, stderr,
          total, warnings, errors, ridx, errRows, warnRows, accumulated,
          resultsFile, exit

vars == <<pc, argc, catalogue, sales, prices, idx, stderr,
          total, warnings, errors, ridx, errRows, warnRows, accumulated,
          resultsFile, exit>>

\* ---------------------------------------------------------------- bounds
MaxItems == 2
MaxRows == 2

\* ---------------------------------------------------------------- floats
F(n) == [k |-> "fin", v |-> n]
NaN == [k |-> "nan", v |-> 0]

\* a < b on doubles: every comparison with NaN is false
FLt(a, b) == a.k = "fin" /\ b.k = "fin" /\ a.v < b.v
FAdd(a, b) == IF a.k = "nan" \/ b.k = "nan" THEN NaN ELSE F(a.v + b.v)
FMul(a, b) == IF a.k = "nan" \/ b.k = "nan" THEN NaN ELSE F(a.v * b.v)

\* ---------------------------------------------------------------- strings
IsSpace(c) == c = " "

RECURSIVE LStrip(_)
LStrip(s) == IF s # <<>> /\ IsSpace(Head(s)) THEN LStrip(Tail(s)) ELSE s

RECURSIVE RStrip(_)
RStrip(s) == IF s # <<>> /\ IsSpace(s[Len(s)])
             THEN RStrip(SubSeq(s, 1, Len(s) - 1)) ELSE s

\* str.strip()
Strip(s) == RStrip(LStrip(s))

Digits == {"0", "1", "2", "3", "4", "5", "6", "7", "8", "9"}
DigitVal(c) == CASE c = "0" -> 0 [] c = "1" -> 1 [] c = "2" -> 2
                 [] c = "3" -> 3 [] c = "4" -> 4 [] c = "5" -> 5
                 [] c = "6" -> 6 [] c = "7" -> 7 [] c = "8" -> 8
                 [] c = "9" -> 9

RECURSIVE DecVal(_)
DecVal(s) == IF s = <<>> THEN 0
             ELSE 10 * DecVal(SubSeq(s, 1, Len(s) - 1)) + DigitVal(s[Len(s)])

IsDecimal(s) == s # <<>> /\ \A i \in 1..Len(s) : s[i] \in Digits

\* ---------------------------------------------------------------- JSON values
JNull == [t |-> "null"]
JNum(f) == [t |-> "num", num |-> f]
\* an integer literal beyond the range of a double (Python ints are unbounded)
JBig == [t |-> "big"]
JStr(s) == [t |-> "str", str |-> s]
JList(xs) == [t |-> "list", items |-> xs]
\* a top-level object that is not a list
JDict == [t |-> "obj"]
CatItem(title, price) == [t |-> "obj", title |-> title, price |-> price]
SalesRow(product, quantity) ==
    [t |-> "obj", Product |-> product, Quantity |-> quantity]

\* dict.get(key): None when the key is absent
Get(o, key) == IF key \in DOMAIN o THEN o[key] ELSE JNull

IsList(v) == v.t = "list"
IsDictV(v) == v.t = "obj"
IsStr(v) == v.t = "str"

\* ---------------------------------------------------------------- float()
Ok(f) == [ok |-> TRUE, val |-> f]
Raise(e) == [ok |-> FALSE, exc |-> e]

\* float(str): surrounding whitespace ignored, optional sign, digits or nan
ParseFloat(s) ==
    LET u == Strip(s)
        neg == u # <<>> /\ Head(u) = "-"
        body == IF u # <<>> /\ Head(u) \in {"-", "+"} THEN Tail(u) ELSE u
    IN  IF IsDecimal(body)
        THEN Ok(F(IF neg THEN 0 - DecVal(body) ELSE DecVal(body)))
        ELSE IF body = <<"n", "a", "n">> THEN Ok(NaN)
        ELSE Raise("ValueError")

\* float(x) for a parsed JSON value x
Float(x) ==
    CASE x.t = "num" -> Ok(x.num)
      [] x.t = "big" -> Raise("OverflowError")
      [] x.t = "str" -> ParseFloat(x.str)
      [] OTHER -> Raise("TypeError")

\* the except clause of both try blocks: (TypeError, ValueError)
Caught(e) == e \in {"TypeError", "ValueError"}

\* ---------------------------------------------------------------- inputs
TitleVals == {JNull, JStr(<<" ">>), JStr(<<"A">>), JStr(<<"B">>)}
PriceVals == {JNull, JStr(<<"x">>), JStr(<<"2">>), JNum(F(0 - 1)), JNum(F(1)),
              JNum(NaN), JBig}
CatItems == {JNum(F(7))} \cup {CatItem(ti, p) : ti \in TitleVals, p \in PriceVals}

ProductVals == {JNull, JStr(<<" ">>), JStr(<<"A">>), JStr(<<"C">>)}
QuantityVals == {JNull, JStr(<<"x">>), JNum(F(0 - 1)), JNum(F(2)), JBig}
SalesRows == {JNum(F(7))}
             \cup {SalesRow(p, q) : p \in ProductVals, q \in QuantityVals}

SeqsUpTo(S, n) == UNION {[1..m -> S] : m \in 0..n}

NonLists == {JNull, JDict}
Catalogues == NonLists \cup {JList(xs) : xs \in SeqsUpTo(CatItems, MaxItems)}
SalesDocs == NonLists \cup {JList(xs) : xs \in SeqsUpTo(SalesRows, MaxRows)}

SampleCatalogues ==
    {JDict, JList(<<>>),
     JList(<<CatItem(JStr(<<"A">>), JNum(F(1)))>>),
     JList(<<CatItem(JStr(<<"A">>), JStr(<<"2">>)),
             CatItem(JStr(<<"B">>), JNum(F(1)))>>),
     JList(<<CatItem(JStr(<<"A">>), JNum(NaN))>>)}
SampleSales ==
    {JDict, JList(<<>>),
     JList(<<SalesRow(JStr(<<"A">>), JNum(F(2)))>>),
     JList(<<SalesRow(JStr(<<"C">>), JNum(F(0 - 1)))>>)}

Inputs == (Catalogues \X SampleSales) \cup (SampleCatalogues \X SalesDocs)

ArgCounts == {2, 3, 4}

\* ---------------------------------------------------------------- messages
Msg(kind) == [msg |-> kind]
MsgIdx(kind, i) == [msg |-> kind, idx |-> i]
MsgName(kind, name) == [msg |-> kind, name |-> name]
MsgIdxName(kind, i, name) == [msg |-> kind, idx |-> i, name |-> name]

\* variant: list.insert(0, m)
Emit_Prepend(seq, m) == <<m>> \o seq

\* list.append / one line written to stderr
Emit(seq, m) == Append(seq, m)

\* variant: prices.setdefault(title, price_value)
SetItem_FirstWins(d, key, val) ==
    [x \in DOMAIN d \cup {key} |-> IF x \in DOMAIN d THEN d[x] ELSE val]

\* prices[title] = price_value
SetItem(d, key, val) == [x \in DOMAIN d \cup {key} |-> IF x = key THEN val ELSE d[x]]

EmptyDict == [x \in {} |-> NaN]

\* ---------------------------------------------------------------- main
Init ==
    /\ pc = "main"
    /\ argc \in ArgCounts
    /\ catalogue = JNull
    /\ sales = JNull
    /\ prices = EmptyDict
    /\ idx = 0
    /\ stderr = <<>>
    /\ total = F(0)
    /\ warnings = <<>>
    /\ errors = <<>>
    /\ ridx = 0
    /\ errRows = <<>>
    /\ warnRows = <<>>
    /\ accumulated = 0
    /\ resultsFile = [written |-> FALSE]
    /\ exit = 0 - 1

\* len(argv) != 3: usage, return 2
Main_Usage ==
    /\ pc = "main"
    /\ argc # 3
    /\ stderr' = Emit(stderr, Msg("Usage"))
    /\ exit' = 2
    /\ pc' = "done"
    /\ UNCHANGED <<argc, catalogue, sales, prices, idx, total, warnings,
                   errors, ridx, errRows, warnRows, accumulated, resultsFile>>

\* both documents are loaded; None for either returns 1
Main_Load ==
    /\ pc = "main"
    /\ argc = 3
    /\ \E in \in Inputs :
         /\ catalogue' = in[1]
         /\ sales' = in[2]
         /\ IF in[1] = JNull \/ in[2] = JNull
            THEN exit' = 1 /\ pc' = "done"
            ELSE exit' = exit /\ pc' = "bpm"
    /\ UNCHANGED <<argc, prices, idx, stderr, total, warnings, errors, ridx,
                   errRows, warnRows, accumulated, resultsFile>>

\* ---------------------------------------------------------------- build_price_map
\* the catalogue is not a list: one message, the empty map is returned
BPM_NotList ==
    /\ pc = "bpm"
    /\ ~IsList(catalogue)
    /\ stderr' = Emit(stderr, Msg("CatalogueNotList"))
    /\ pc' = "ct"
    /\ UNCHANGED <<argc, catalogue, sales, prices, idx, total, warnings,
                   errors, ridx, errRows, warnRows, accumulated, resultsFile,
                   exit>>

BPM_Enter ==
    /\ pc = "bpm"
    /\ IsList(catalogue)
    /\ pc' = "bpm_loop"
    /\ UNCHANGED <<argc, catalogue, sales, prices, idx, stderr, total,
                   warnings, errors, ridx, errRows, warnRows, accumulated,
                   resultsFile, exit>>

\* variant: the check price_value < 0 is left out
ItemStep_NoNegativeCheck(item, i) ==
    LET title == Get(item, "title")
        price == Get(item, "price")
        conv == Float(price)
    IN  IF ~IsDictV(item)
        THEN [act |-> "skip", m |-> MsgIdx("ItemNotObject", i)]
        ELSE IF ~IsStr(title) \/ Strip(title.str) = <<>>
        THEN [act |-> "skip", m |-> MsgIdx("InvalidTitle", i)]
        ELSE IF ~conv.ok
        THEN IF Caught(conv.exc)
             THEN [act |-> "skip", m |-> MsgIdxName("InvalidPrice", i, title.str)]
             ELSE [act |-> "raise", exc |-> conv.exc]
        ELSE [act |-> "set", key |-> title.str, val |-> conv.val]

\* the body of the loop for one catalogue item (i is the 0-based position)
ItemStep(item, i) ==
    LET title == Get(item, "title")
        price == Get(item, "price")
        conv == Float(price)
    IN  IF ~IsDictV(item)
        THEN [act |-> "skip", m |-> MsgIdx("ItemNotObject", i)]
        ELSE IF ~IsStr(title) \/ Strip(title.str) = <<>>
        THEN [act |-> "skip", m |-> MsgIdx("InvalidTitle", i)]
        ELSE IF ~conv.ok
        THEN IF Caught(conv.exc)
             THEN [act |-> "skip", m |-> MsgIdxName("InvalidPrice", i, title.str)]
             ELSE [act |-> "raise", exc |-> conv.exc]
        ELSE IF FLt(conv.val, F(0))
        THEN [act |-> "skip", m |-> MsgIdxName("NegativePrice", i, title.str)]
        ELSE [act |-> "set", key |-> title.str, val |-> conv.val]

BPM_Item ==
    /\ pc = "bpm_loop"
    /\ idx < Len(catalogue.items)
    /\ LET r == ItemStep(catalogue.items[idx + 1], idx)
       IN  CASE r.act = "skip" ->
                  /\ stderr' = Emit(stderr, r.m)
                  /\ idx' = idx + 1
                  /\ UNCHANGED <<prices, pc, exit>>
             [] r.act = "set" ->
                  /\ prices' = SetItem(prices, r.key, r.val)
                  /\ idx' = idx + 1
                  /\ UNCHANGED <<stderr, pc, exit>>
             [] r.act = "raise" ->
                  /\ pc' = "crashed"
                  /\ exit' = 1
                  /\ UNCHANGED <<prices, stderr, idx>>
    /\ UNCHANGED <<argc, catalogue, sales, total, warnings, errors, ridx,
                   errRows, warnRows, accumulated, resultsFile>>

BPM_Return ==
    /\ pc = "bpm_loop"
    /\ idx = Len(catalogue.items)
    /\ pc' = "ct"
    /\ UNCHANGED <<argc, catalogue, sales, prices, idx, stderr, total,
                   warnings, errors, ridx, errRows, warnRows, accumulated,
                   resultsFile, exit>>

\* ---------------------------------------------------------------- compute_total
\* variant: the schema message is appended to warnings
CT_NotList_AsWarning ==
    /\ pc = "ct"
    /\ ~IsList(sales)
    /\ warnings' = Emit(warnings, Msg("SalesNotList"))
    /\ pc' = "report"
    /\ UNCHANGED <<argc, catalogue, sales, prices, idx, stderr, total,
                   errors, ridx, errRows, warnRows, accumulated,
                   resultsFile, exit>>

\* the sales document is not a list: one error, total 0.0 is returned
CT_NotList ==
    /\ pc = "ct"
    /\ ~IsList(sales)
    /\ errors' = Emit(errors, Msg("SalesNotList"))
    /\ pc' = "report"
    /\ UNCHANGED <<argc, catalogue, sales, prices, idx, stderr, total,
                   warnings, ridx, errRows, warnRows, accumulated,
                   resultsFile, exit>>

CT_Enter ==
    /\ pc = "ct"
    /\ IsList(sales)
    /\ pc' = "ct_loop"
    /\ UNCHANGED <<argc, catalogue, sales, prices, idx, stderr, total,
                   warnings, errors, ridx, errRows, warnRows, accumulated,
                   resultsFile, exit>>

\* the first three rules of the loop body, shared by the variants below
RowHead(row, i, rest) ==
    LET product == Get(row, "Product")
        conv == Float(Get(row, "Quantity"))
    IN  IF ~IsDictV(row)
        THEN [act |-> "error", m |-> MsgIdx("RowNotObject", i)]
        ELSE IF ~IsStr(product) \/ Strip(product.str) = <<>>
        THEN [act |-> "error", m |-> MsgIdx("InvalidProduct", i)]
        ELSE IF ~conv.ok
        THEN IF Caught(conv.exc)
             THEN [act |-> "error", m |-> MsgName("InvalidQuantity", product.str)]
             ELSE [act |-> "raise", exc |-> conv.exc]
        ELSE rest

\* variant: a negative quantity is rejected with an error before the lookup
RowStep_RejectNegative(pm, row, i) ==
    LET product == Get(row, "Product")
        conv == Float(Get(row, "Quantity"))
    IN  RowHead(row, i,
          IF FLt(conv.val, F(0))
          THEN [act |-> "error", m |-> MsgName("NegativeQuantity", product.str)]
          ELSE IF product.str \notin DOMAIN pm
          THEN [act |-> "warn", m |-> MsgName("ProductNotFound", product.str)]
          ELSE [act |-> "add", amount |-> FMul(pm[product.str], conv.val)])

\* variant: an unknown product is appended to errors
RowStep_WarnAsError(pm, row, i) ==
    LET product == Get(row, "Product")
        conv == Float(Get(row, "Quantity"))
    IN  RowHead(row, i,
          IF product.str \notin DOMAIN pm
          THEN [act |-> "error", m |-> MsgName("ProductNotFound", product.str)]
          ELSE [act |-> "add", amount |-> FMul(pm[product.str], conv.val)])

\* variant: the price is added without the quantity
RowStep_IgnoreQuantity(pm, row, i) ==
    LET product == Get(row, "Product")
        conv == Float(Get(row, "Quantity"))
    IN  RowHead(row, i,
          IF product.str \notin DOMAIN pm
          THEN [act |-> "warn", m |-> MsgName("ProductNotFound", product.str)]
          ELSE [act |-> "add", amount |-> pm[product.str]])

\* variant: the product is looked up before the quantity is converted
RowStep_LookupFirst(pm, row, i) ==
    LET product == Get(row, "Product")
        conv == Float(Get(row, "Quantity"))
    IN  IF ~IsDictV(row)
        THEN [act |-> "error", m |-> MsgIdx("RowNotObject", i)]
        ELSE IF ~IsStr(product) \/ Strip(product.str) = <<>>
        THEN [act |-> "error", m |-> MsgIdx("InvalidProduct", i)]
        ELSE IF product.str \notin DOMAIN pm
        THEN [act |-> "warn", m |-> MsgName("ProductNotFound", product.str)]
        ELSE IF ~conv.ok
        THEN IF Caught(conv.exc)
             THEN [act |-> "error", m |-> MsgName("InvalidQuantity", product.str)]
             ELSE [act |-> "raise", exc |-> conv.exc]
        ELSE [act |-> "add", amount |-> FMul(pm[product.str], conv.val)]

\* the body of the loop for one sales row (i is the 0-based position)
RowStep(pm, row, i) ==
    LET product == Get(row, "Product")
        quantity == Get(row, "Quantity")
        conv == Float(quantity)
    IN  IF ~IsDictV(row)
        THEN [act |-> "error", m |-> MsgIdx("RowNotObject", i)]
        ELSE IF ~IsStr(product) \/ Strip(product.str) = <<>>
        THEN [act |-> "error", m |-> MsgIdx("InvalidProduct", i)]
        ELSE IF ~conv.ok
        THEN IF Caught(conv.exc)
             THEN [act |-> "error", m |-> MsgName("InvalidQuantity", product.str)]
             ELSE [act |-> "raise", exc |-> conv.exc]
        ELSE IF product.str \notin DOMAIN pm
        THEN [act |-> "warn", m |-> MsgName("ProductNotFound", product.str)]
        ELSE [act |-> "add", amount |-> FMul(pm[product.str], conv.val)]

CT_Row ==
    /\ pc = "ct_loop"
    /\ ridx < Len(sales.items)
    /\ LET r == RowStep(prices, sales.items[ridx + 1], ridx)
       IN  CASE r.act = "error" ->
                  /\ errors' = Emit(errors, r.m)
                  /\ errRows' = Emit(errRows, ridx)
                  /\ ridx' = ridx + 1
                  /\ UNCHANGED <<warnings, warnRows, total, accumulated, pc, exit>>
             [] r.act = "warn" ->
                  /\ warnings' = Emit(warnings, r.m)
                  /\ warnRows' = Emit(warnRows, ridx)
                  /\ ridx' = ridx + 1
                  /\ UNCHANGED <<errors, errRows, total, accumulated, pc, exit>>
             [] r.act = "add" ->
                  /\ total' = FAdd(total, r.amount)
                  /\ accumulated' = accumulated + 1
                  /\ ridx' = ridx + 1
                  /\ UNCHANGED <<errors, errRows, warnings, warnRows, pc, exit>>
             [] r.act = "raise" ->
                  /\ pc' = "crashed"
                  /\ exit' = 1
                  /\ UNCHANGED <<errors, errRows, warnings, warnRows, total,
                                 accumulated, ridx>>
    /\ UNCHANGED <<argc, catalogue, sales, prices, idx, stderr, resultsFile>>

CT_Return ==
    /\ pc = "ct_loop"
    /\ ridx = Len(sales.items)
    /\ pc' = "report"
    /\ UNCHANGED <<argc, catalogue, sales, prices, idx, stderr, total,
                   warnings, errors, ridx, errRows, warnRows, accumulated,
                   resultsFile, exit>>

\* ---------------------------------------------------------------- report
\* the report is built, printed and written; a failed write returns 1
Main_Report ==
    /\ pc = "report"
    /\ \/ /\ resultsFile' = [written |-> TRUE, total |-> total,
                             errors |-> errors, warnings |-> warnings]
          /\ exit' = 0
          /\ stderr' = stderr
       \/ /\ resultsFile' = resultsFile
          /\ stderr' = Emit(stderr, Msg("CouldNotWrite"))
          /\ exit' = 1
    /\ pc' = "done"
    /\ UNCHANGED <<argc, catalogue, sales, prices, idx, total, warnings,
                   errors, ridx, errRows, warnRows, accumulated>>

Next ==
    \/ Main_Usage
    \/ Main_Load
    \/ BPM_NotList
    \/ BPM_Enter
    \/ BPM_Item
    \/ BPM_Return
    \/ CT_NotList
    \/ CT_Enter
    \/ CT_Row
    \/ CT_Return
    \/ Main_Report

Spec == Init /\ [][Next]_vars

\* ================================================================ properties
\* the catalogue items and the sales rows whose loop body has completed
ItemsDone == IF IsList(catalogue) THEN SubSeq(catalogue.items, 1, idx) ELSE <<>>
RowsDone == IF IsList(sales) THEN SubSeq(sales.items, 1, ridx) ELSE <<>>

\* a non-blank string
NonBlankStr(v) == IsStr(v) /\ Strip(v.str) # <<>>
\* float() raises one of the errors the loops catch
NonNumeric(v) == ~Float(v).ok /\ Float(v).exc \in {"TypeError", "ValueError"}
\* float() returns a value below zero
NegativeNum(v) == Float(v).ok /\ FLt(Float(v).val, F(0))

ValidItem(item) ==
    /\ IsDictV(item)
    /\ NonBlankStr(Get(item, "title"))
    /\ Float(Get(item, "price")).ok
    /\ ~NegativeNum(Get(item, "price"))

RejectedItem(item) ==
    \/ ~IsDictV(item)
    \/ ~NonBlankStr(Get(item, "title"))
    \/ NonNumeric(Get(item, "price"))
    \/ NegativeNum(Get(item, "price"))

CountIf(s, P(_)) == Cardinality({i \in DOMAIN s : P(s[i])})

BpmKinds == {"CatalogueNotList", "ItemNotObject", "InvalidTitle", "InvalidPrice",
             "NegativePrice"}
IsBpmDiagnostic(m) == m.msg \in BpmKinds
BpmDiagnostics == SelectSeq(stderr, IsBpmDiagnostic)

\* the step that completes the loop body for the sales row at position ridx
RowHandled == pc = "ct_loop" /\ ridx' = ridx + 1
CurRow == sales.items[ridx + 1]

ValidProductRow(row) == IsDictV(row) /\ NonBlankStr(Get(row, "Product"))
NegQtyRow(row) == ValidProductRow(row) /\ NegativeNum(Get(row, "Quantity"))
AbsentProductRow(row) ==
    ValidProductRow(row) /\ Get(row, "Product").str \notin DOMAIN prices

\* ---------------------------------------------------------------- C1
\* C1 (as stated): the step that handles a row with a valid Product and a
\* Quantity below zero leaves the total unchanged, appends exactly one error
\* and appends no warning.
C1_NegativeQuantityRejected ==
    [][(RowHandled /\ NegQtyRow(CurRow))
         => /\ total' = total
            /\ Len(errors') = Len(errors) + 1
            /\ warnings' = warnings]_vars

\* C1 (amended): the step that handles a row with a valid Product and a
\* Quantity below zero appends no error; when the product is in the index it
\* adds prices[Product] * Quantity to the total and appends no warning, and
\* otherwise it leaves the total unchanged and appends exactly one warning.
C1_NegativeQuantityIncluded ==
    [][(RowHandled /\ NegQtyRow(CurRow))
         => /\ errors' = errors
            /\ IF AbsentProductRow(CurRow)
               THEN /\ total' = total
                    /\ Len(warnings') = Len(warnings) + 1
               ELSE /\ total' = FAdd(total,
                                     FMul(prices[Get(CurRow, "Product").str],
                                          Float(Get(CurRow, "Quantity")).val))
                    /\ warnings' = warnings]_vars

C1_Witness ==
    /\ pc = "report"
    /\ \E i \in 1..Len(RowsDone) :
         NegQtyRow(RowsDone[i]) /\ ~AbsentProductRow(RowsDone[i])
    /\ total.k = "fin" /\ total.v < 0
    /\ errors = <<>>

\* ---------------------------------------------------------------- C2
\* C2 (as stated): the step that handles a row whose Product is a non-blank
\* string absent from the index leaves the total unchanged, appends exactly
\* one warning and no error, whatever the Quantity field holds.
C2_AbsentProductAnyQuantity ==
    [][(RowHandled /\ AbsentProductRow(CurRow))
         => /\ total' = total
            /\ Len(warnings') = Len(warnings) + 1
            /\ errors' = errors]_vars

\* C2 (amended): the same, for every Quantity that float() converts (below
\* zero included); a Quantity float() rejects with TypeError or ValueError
\* yields one error and no warning instead.
C2_AbsentProductNumericQuantity ==
    [][(RowHandled /\ AbsentProductRow(CurRow))
         => IF Float(Get(CurRow, "Quantity")).ok
            THEN /\ total' = total
                 /\ Len(warnings') = Len(warnings) + 1
                 /\ warnings'[Len(warnings')].name = Get(CurRow, "Product").str
                 /\ errors' = errors
            ELSE /\ total' = total
                 /\ warnings' = warnings
                 /\ Len(errors') = Len(errors) + 1]_vars

C2_Witness ==
    /\ pc = "ct_loop"
    /\ ridx >= 1
    /\ AbsentProductRow(RowsDone[ridx])
    /\ NegativeNum(Get(RowsDone[ridx], "Quantity"))
    /\ Len(warnings) >= 1
    /\ warnRows[Len(warnRows)] = ridx - 1

\* ---------------------------------------------------------------- C3
\* C3: when main has returned after loading a catalogue or a sales document
\* whose top-level value is not a list, the exit status is non-zero and no
\* report file has been written.
C3_FatalStopsRun ==
    (pc = "done" /\ argc = 3 /\ (~IsList(catalogue) \/ ~IsList(sales)))
        => (exit # 0 /\ ~resultsFile.written)

\* ---------------------------------------------------------------- C4
\* C4: at every point during and after build_price_map, every key of the
\* price index is non-empty after trimming and maps to a price >= 0.
C4_IndexValidated ==
    \A key \in DOMAIN prices :
        /\ Strip(key) # <<>>
        /\ prices[key].k = "fin"
        /\ prices[key].v >= 0

\* ---------------------------------------------------------------- C5
ValidAt(items, key) ==
    {i \in DOMAIN items : ValidItem(items[i]) /\ Get(items[i], "title").str = key}
LastOf(S) == CHOOSE i \in S : \A j \in S : j <= i

\* C5: the index holds exactly the titles of the valid items handled so far,
\* and each title maps to the price of the last valid item carrying it; items
\* that fail validation change nothing.
C5_LastWriteWins ==
    LET items == ItemsDone
    IN  /\ DOMAIN prices =
             {Get(items[i], "title").str : i \in {j \in DOMAIN items : ValidItem(items[j])}}
        /\ \A key \in DOMAIN prices :
             prices[key] = Float(Get(items[LastOf(ValidAt(items, key))], "price")).val

C5_Witness ==
    /\ pc = "ct"
    /\ Len(ItemsDone) = 2
    /\ ValidItem(ItemsDone[1]) /\ ValidItem(ItemsDone[2])
    /\ Get(ItemsDone[1], "title") = Get(ItemsDone[2], "title")
    /\ Float(Get(ItemsDone[1], "price")).val # Float(Get(ItemsDone[2], "price")).val
    /\ prices[Get(ItemsDone[2], "title").str] = Float(Get(ItemsDone[2], "price")).val

C7_SalesNotList ==
    (pc = "report" /\ ~IsList(sales))
        => /\ total = F(0)
           /\ errors = <<Msg("SalesNotList")>>
           /\ warnings = <<>>

C7_Witness ==
    pc = "report" /\ ~IsList(sales) /\ DOMAIN prices # {} /\ Len(errors) = 1

\* ---------------------------------------------------------------- C8
IsPrefix(s, u) == Len(s) <= Len(u) /\ SubSeq(u, 1, Len(s)) = s
Increasing(s) == \A i, j \in DOMAIN s : i < j => s[i] < s[j]
\* message m was produced for the row at 0-based position r
FromRow(m, r) ==
    /\ r + 1 \in DOMAIN RowsDone
    /\ "idx" \in DOMAIN m => m.idx = r
    /\ "name" \in DOMAIN m => m.name = Get(RowsDone[r + 1], "Product").str

\* C8: errors and warnings only ever grow at the end, and in each of them the
\* messages appear in the order of the rows that produced them.
C8_MessagesInRowOrder ==
    [][/\ IsPrefix(errors, errors')
       /\ IsPrefix(warnings, warnings')
       /\ IsList(sales)' =>
            /\ Len(errRows') = Len(errors') /\ Increasing(errRows')
            /\ Len(warnRows') = Len(warnings') /\ Increasing(warnRows')
            /\ \A i \in DOMAIN errors' : FromRow(errors[i], errRows[i])'
            /\ \A i \in DOMAIN warnings' : FromRow(warnings[i], warnRows[i])']_vars

C8_Witness ==
    /\ pc = "report"
    /\ Len(errors) = 2
    /\ errors[1].msg = "InvalidQuantity"
    /\ errors[2].msg = "RowNotObject"
    /\ errRows = <<0, 1>>

\* ---------------------------------------------------------------- C9
\* the rules a row must pass to be accumulated, as the loop applies them
PassesRules(pm, row) ==
    /\ ValidProductRow(row)
    /\ Float(Get(row, "Quantity")).ok
    /\ Get(row, "Product").str \in DOMAIN pm
\* the same with the rule "Quantity >= 0" added
PassesRulesNonNegative(pm, row) ==
    PassesRules(pm, row) /\ ~NegativeNum(Get(row, "Quantity"))

Amount(pm, row) == FMul(pm[Get(row, "Product").str], Float(Get(row, "Quantity")).val)

RECURSIVE SumRows(_, _)
SumRows(pm, rows) ==
    IF rows = <<>> THEN F(0)
    ELSE LET front == SubSeq(rows, 1, Len(rows) - 1)
             last == rows[Len(rows)]
         IN  IF PassesRules(pm, last)
             THEN FAdd(SumRows(pm, front), Amount(pm, last))
             ELSE SumRows(pm, front)

RECURSIVE SumRowsNonNegative(_, _)
SumRowsNonNegative(pm, rows) ==
    IF rows = <<>> THEN F(0)
    ELSE LET front == SubSeq(rows, 1, Len(rows) - 1)
             last == rows[Len(rows)]
         IN  IF PassesRulesNonNegative(pm, last)
             THEN FAdd(SumRowsNonNegative(pm, front), Amount(pm, last))
             ELSE SumRowsNonNegative(pm, front)

\* C9 (as stated): the total is the left-to-right sum of price * quantity
\* over the rows that are objects with a valid Product, a numeric and
\* non-negative Quantity and a Product in the index.
C9_TotalOverNonNegativeRows ==
    IsList(sales) => total = SumRowsNonNegative(prices, RowsDone)

\* C9 (amended): the total is the left-to-right sum of price * quantity over
\* the rows that are objects with a valid Product, a Quantity float()
\* converts (of either sign) and a Product in the index.
C9_TotalOverAcceptedRows ==
    IsList(sales) => total = SumRows(prices, RowsDone)

C9_Witness ==
    /\ pc = "report"
    /\ Len(RowsDone) = 2
    /\ PassesRules(prices, RowsDone[1])
    /\ PassesRules(prices, RowsDone[2])
    /\ NegativeNum(Get(RowsDone[1], "Quantity"))
    /\ ~NegativeNum(Get(RowsDone[2], "Quantity"))
    /\ total.k = "fin" /\ total.v > 0

\* ---------------------------------------------------------------- C10
\* the outcome of a row under the first matching rule: non-object, invalid
\* Product, invalid Quantity, product not found, accumulate
Outcome(pm, row) ==
    IF ~IsDictV(row) THEN "error"
    ELSE IF ~NonBlankStr(Get(row, "Product")) THEN "error"
    ELSE IF NonNumeric(Get(row, "Quantity")) THEN "error"
    ELSE IF Get(row, "Product").str \notin DOMAIN pm THEN "warning"
    ELSE "accumulate"

\* the same with the rule "negative Quantity" before "product not found"
OutcomeNegativeRule(pm, row) ==
    IF ~IsDictV(row) THEN "error"
    ELSE IF ~NonBlankStr(Get(row, "Product")) THEN "error"
    ELSE IF NonNumeric(Get(row, "Quantity")) THEN "error"
    ELSE IF NegativeNum(Get(row, "Quantity")) THEN "error"
    ELSE IF Get(row, "Product").str \notin DOMAIN pm THEN "warning"
    ELSE "accumulate"

IsOutcome(o, rows) == {i \in DOMAIN rows : Outcome(prices, rows[i]) = o}
IsOutcomeNegativeRule(o, rows) ==
    {i \in DOMAIN rows : OutcomeNegativeRule(prices, rows[i]) = o}

\* C10 (as stated): every handled row has the one outcome of the first
\* matching rule in the order non-object, invalid Product, invalid Quantity,
\* negative Quantity, product not found, accumulate.
C10_OneOutcomeNegativeRule ==
    IsList(sales) =>
        /\ Len(errors) + Len(warnings) + accumulated = ridx
        /\ Len(errors) = Cardinality(IsOutcomeNegativeRule("error", RowsDone))
        /\ Len(warnings) = Cardinality(IsOutcomeNegativeRule("warning", RowsDone))
        /\ accumulated = Cardinality(IsOutcomeNegativeRule("accumulate", RowsDone))

\* C10 (amended): every handled row has the one outcome of the first matching
\* rule in the order non-object, invalid Product, invalid Quantity, product
\* not found, accumulate; the three counts add up to the rows handled, and a
\* row with a non-numeric Quantity and an unknown Product gives an error.
C10_OneOutcomePerRow ==
    IsList(sales) =>
        /\ Len(errors) + Len(warnings) + accumulated = ridx
        /\ Len(errors) = Cardinality(IsOutcome("error", RowsDone))
        /\ {errRows[n] + 1 : n \in DOMAIN errRows} = IsOutcome("error", RowsDone)
        /\ Len(warnings) = Cardinality(IsOutcome("warning", RowsDone))
        /\ {warnRows[n] + 1 : n \in DOMAIN warnRows} = IsOutcome("warning", RowsDone)
        /\ accumulated = Cardinality(IsOutcome("accumulate", RowsDone))

C10_Witness ==
    /\ pc = "report"
    /\ Len(RowsDone) = 2
    /\ AbsentProductRow(RowsDone[1]) /\ NonNumeric(Get(RowsDone[1], "Quantity"))
    /\ Outcome(prices, RowsDone[2]) = "accumulate"
    /\ Len(errors) = 1 /\ warnings = <<>> /\ accumulated = 1
====
